---- MODULE Spec2Model ----
(***************************************************************************)
(* Selection and action-dispatch core of the file browser: the special     *)
(* action handler map (useSpecialFileActionHandlerMap), the selection      *)
(* store it mutates and the file actions it hands to the host.             *)
(***************************************************************************)
EXTENDS Integers, Sequences, FiniteSets, TLC

\* ----------------------------------------------------------------- bounds
NumFiles == 3          \* files known to one browser instance, ids 1..NumFiles
MaxRun == 2            \* consecutive shift-clicks that are counted

\* -------------------------------------------------------------- constants
Null == -1             \* lastClickDisplayIndexRef.current === null
NoFile == 0            \* a null file (parent folder absent)

OpenFiles == "open_files"
MoveFilesTo == "move_files_to"
DuplicateFilesTo == "duplicate_files_to"

VARIABLES
    files,             \* display order of the file ids (rawFiles)
    parentFolder,      \* selectParentFolder: a file id or NoFile
    disableSelection,  \* FileBrowserProps.disableSelection
    selection,         \* selectionMap: set of selected file ids
    lastClick,         \* lastClickDisplayIndexRef.current
    dispatched,        \* file actions handed to the host by the last event
    ev,                \* the last special action (history)
    pre,               \* selection and lastClick before the last event (history)
    run,               \* anchoring click followed by consecutive shift-clicks (history)
    twice,             \* two ctrl-clicks on the same file in a row (history)
    hostMayThrow,      \* whether the file action dispatcher of this host can throw
    outcome,           \* how dispatchSpecialAction ended for the last event
    stale,             \* a last click was zeroed out by a files update and no
                       \* click has set one since (history)
    fileActionMap,     \* fileActionMapState: the registered file actions
    searchBarVisible   \* searchBarVisibleState

vars == <<files, parentFolder, disableSelection, selection, lastClick,
          dispatched, ev, pre, run, twice, hostMayThrow, outcome, stale,
          fileActionMap, searchBarVisible>>

\* ------------------------------------------------------------------ files
Universe == 1..NumFiles

\* Capability flags of the fixture files, by id:
\*   1: selectable, openable, draggable      2: selectable only
\*   3: openable and draggable only          4: selectable and openable
\*   5: selectable and draggable             6: nothing
Caps == << [s |-> TRUE,  o |-> TRUE,  d |-> TRUE],
           [s |-> TRUE,  o |-> FALSE, d |-> FALSE],
           [s |-> FALSE, o |-> TRUE,  d |-> TRUE],
           [s |-> TRUE,  o |-> TRUE,  d |-> FALSE],
           [s |-> TRUE,  o |-> FALSE, d |-> TRUE],
           [s |-> FALSE, o |-> FALSE, d |-> FALSE] >>

CapsOf(f) == Caps[((f - 1) % Len(Caps)) + 1]

\* FileHelper: total over nullable input, null => false
isSelectable(f) == f # NoFile /\ CapsOf(f).s
isOpenable(f) == f # NoFile /\ CapsOf(f).o
isDraggable(f) == f # NoFile /\ CapsOf(f).d

Ascending(S) == CHOOSE s \in [1..Cardinality(S) -> S] :
                    \A i, j \in 1..Cardinality(S) : i < j => s[i] < s[j]
Reverse(s) == [i \in 1..Len(s) |-> s[Len(s) + 1 - i]]

\* The folders the host navigates between, each with the files array and the
\* parent folder it supplies: the root lists every file, in either order, and
\* has no parent; the folder below file f lists the other files.
Folders ==
    {[files |-> Ascending(Universe), parent |-> NoFile],
     [files |-> Reverse(Ascending(Universe)), parent |-> NoFile]}
    \cup {[files |-> Ascending(Universe \ {f}), parent |-> f] : f \in Universe}

FileLists == {d.files : d \in Folders}
ParentFolders == {d.parent : d \in Folders}

Ids(fs) == {fs[i] : i \in 1..Len(fs)}
Indices(fs) == 0..(Len(fs) - 1)
FileAt(fs, i) == fs[i + 1]

\* -------------------------------------------------------- selection store
\* faulty variant: the toggle does not look at the selection-disabled flag
toggleSelectionIgnoresFlag(fs, sel, fileId, exclusive) ==
    IF fileId \notin Ids(fs) THEN sel
    ELSE IF exclusive THEN {fileId}
    ELSE IF fileId \in sel THEN sel \ {fileId}
    ELSE sel \cup {fileId}

toggleSelection(fs, sel, fileId, exclusive) ==
    IF disableSelection \/ fileId \notin Ids(fs) THEN sel
    ELSE IF exclusive THEN {fileId}
    ELSE IF fileId \in sel THEN sel \ {fileId}
    ELSE sel \cup {fileId}

selectRange(fs, sel, rangeStart, rangeEnd) ==
    IF disableSelection THEN sel
    ELSE LET lo == IF rangeStart < rangeEnd THEN rangeStart ELSE rangeEnd
             hi == IF rangeStart < rangeEnd THEN rangeEnd ELSE rangeStart
         IN  {FileAt(fs, i) : i \in {j \in Indices(fs) : lo <= j /\ j <= hi}}

clearSelection(sel) == IF disableSelection THEN sel ELSE {}

getIsFileSelected(sel, f) == f # NoFile /\ f \in sel

\* selected files in display order that satisfy the draggable filter
getSelectedDraggable(fs, sel) ==
    SelectSeq(fs, LAMBDA f : f \in sel /\ isDraggable(f))

\* faulty variant: the selection survives a files update untouched
setRawFilesSelectionKeepsAll(sel, newFiles) == sel

setRawFilesSelection(sel, newFiles) == sel \cap Ids(newFiles)

\* faulty variant: the selection is never cleared first
selectFilesAlwaysMerges(fs, sel, ids, reset) ==
    IF disableSelection THEN sel
    ELSE sel \cup {id \in ids : id \in Ids(fs) /\ isSelectable(id)}

\* the ids are applied the same way in both modes: those of files that are
\* present and selectable; reset only decides whether the selection is
\* cleared first
selectFiles(fs, sel, ids, reset) ==
    IF disableSelection THEN sel
    ELSE (IF reset THEN {} ELSE sel)
         \cup {id \in ids : id \in Ids(fs) /\ isSelectable(id)}

\* ----------------------------------------------------------------- events
NoEv == [kind |-> "none", file |-> NoFile, idx |-> Null, clickType |-> "",
         ctrl |-> FALSE, shift |-> FALSE, enter |-> FALSE, space |-> FALSE,
         source |-> NoFile, target |-> NoFile, effect |-> "",
         ids |-> {}, reset |-> FALSE]

FileAction(id, target, fileSeq) ==
    [actionId |-> id, target |-> target, files |-> fileSeq]

NoRun == [start |-> "", anchor |-> Null, shifts |-> 0, prev |-> Null]
NoTwice == [on |-> FALSE, before |-> {}]
NoOutcome == [threw |-> FALSE, escaped |-> FALSE, log |-> ""]

\* ----------------------------------------------------------- file actions
OpenParentFolderId == "open_parent_folder"
ToggleSearchId == "toggle_search"

\* a file action definition, as far as the toolbar reads it
FileActionDef(id, requiresSelection) ==
    [id |-> id, requiresSelection |-> requiresSelection]

\* fileActionDataState(id) of an id that is not registered
NoAction == FileActionDef("", FALSE)

\* definitions a host can register: the built-in ones, and its own definition
\* of open_parent_folder that asks for a selection
FileActionDefs ==
    { FileActionDef(OpenParentFolderId, FALSE),
      FileActionDef(OpenParentFolderId, TRUE),
      FileActionDef(OpenFiles, TRUE),
      FileActionDef(ToggleSearchId, FALSE) }

FileActionIds == {a.id : a \in FileActionDefs}

\* fileActionMap[action.id] = action: one definition per id
FileActionMaps ==
    {m \in SUBSET FileActionDefs :
        \A a, b \in m : a.id = b.id => a = b}

DefaultFileActions ==
    { FileActionDef(OpenParentFolderId, FALSE),
      FileActionDef(OpenFiles, TRUE),
      FileActionDef(ToggleSearchId, FALSE) }

fileActionDataState(map, fileActionId) ==
    IF \E a \in map : a.id = fileActionId
    THEN CHOOSE a \in map : a.id = fileActionId
    ELSE NoAction

\* files of the selection the action applies to (no file filter)
fileActionSelectedFilesCountState(sel, fileActionId) == Cardinality(sel)

\* faulty variant: open_parent_folder is no special case
useFileActionModifiersNoSpecialCase(map, searchBar, parent, sel, fileActionId) ==
    LET action == fileActionDataState(map, fileActionId)
        actionSelectionEmpty ==
            fileActionSelectedFilesCountState(sel, fileActionId) = 0
    IN  IF action = NoAction THEN [active |-> FALSE, disabled |-> TRUE]
        ELSE [active |-> action.id = ToggleSearchId /\ searchBar,
              disabled |-> action.requiresSelection /\ actionSelectionEmpty]

useFileActionModifiers(map, searchBar, parent, sel, fileActionId) ==
    LET action == fileActionDataState(map, fileActionId)
        actionSelectionEmpty ==
            fileActionSelectedFilesCountState(sel, fileActionId) = 0
        disabled == action.requiresSelection /\ actionSelectionEmpty
    IN  IF action = NoAction THEN [active |-> FALSE, disabled |-> TRUE]
        ELSE [active |-> action.id = ToggleSearchId /\ searchBar,
              disabled |-> IF action.id = OpenParentFolderId
                           THEN disabled \/ ~isOpenable(parent)
                           ELSE disabled]

\* the store and the instance variables after mount, for a host configuration
Browser(disabled, mayThrow) ==
    /\ \E d \in Folders : files = d.files /\ parentFolder = d.parent
    /\ disableSelection = disabled
    /\ hostMayThrow = mayThrow
    /\ selection = {}
    /\ lastClick = Null
    /\ dispatched = <<>>
    /\ ev = NoEv
    /\ pre = [selection |-> {}, lastClick |-> Null, stale |-> FALSE]
    /\ run = NoRun
    /\ twice = NoTwice
    /\ outcome = NoOutcome
    /\ stale = FALSE

\* the state after mount, with the built-in file actions registered
Mounted(disabled, mayThrow) ==
    /\ Browser(disabled, mayThrow)
    /\ fileActionMap = DefaultFileActions
    /\ searchBarVisible = FALSE

Init == Mounted(FALSE, FALSE)

Record(data) ==
    /\ ev' = data
    /\ pre' = [selection |-> selection, lastClick |-> lastClick, stale |-> stale]

\* ---------------------------------------------------- dispatchSpecialAction
\* whether the call of the file action dispatcher inside a handler can throw
Throws(acts) == IF hostMayThrow /\ acts # <<>> THEN BOOLEAN ELSE {FALSE}

\* faulty variant: the handler is called without try/catch
dispatchSpecialActionUnguarded(handlerThrew, warned) ==
    [threw |-> handlerThrew, escaped |-> handlerThrew,
     log |-> IF warned THEN "warn" ELSE ""]

\* the handler runs inside try/catch: an error is logged and goes no further
dispatchSpecialAction(handlerThrew, warned) ==
    [threw |-> handlerThrew, escaped |-> FALSE,
     log |-> IF handlerThrew THEN "error" ELSE IF warned THEN "warn" ELSE ""]

\* the handler hands its file actions to the dispatcher, which may throw
Handled(acts, warned) ==
    \E th \in Throws(acts) : outcome' = dispatchSpecialAction(th, warned)


\* ------------------------------------------- MouseClickFile (single/double)
RangeStart(last, idx) == IF last > idx THEN idx ELSE last
RangeEnd(last, idx) == IF last > idx THEN last ELSE idx

\* faulty variant: the range is added to the prior selection instead of replacing it
MouseClickFileSelectionAdditiveRange(fs, sel, last, data) ==
    IF data.clickType = "double" THEN sel
    ELSE IF isSelectable(data.file) THEN
        IF data.ctrl THEN toggleSelection(fs, sel, data.file, FALSE)
        ELSE IF data.shift THEN
            IF last # Null
            THEN sel \cup selectRange(fs, sel, RangeStart(last, data.idx),
                                      RangeEnd(last, data.idx))
            ELSE toggleSelection(fs, sel, data.file, FALSE)
        ELSE toggleSelection(fs, sel, data.file, TRUE)
    ELSE IF ~data.ctrl THEN clearSelection(sel) ELSE sel

\* faulty variant: a plain click toggles the file instead of selecting it exclusively
MouseClickFileSelectionPlainToggle(fs, sel, last, data) ==
    IF data.clickType = "double" THEN sel
    ELSE IF isSelectable(data.file) THEN
        IF data.ctrl THEN toggleSelection(fs, sel, data.file, FALSE)
        ELSE IF data.shift THEN
            IF last # Null
            THEN selectRange(fs, sel, RangeStart(last, data.idx),
                             RangeEnd(last, data.idx))
            ELSE toggleSelection(fs, sel, data.file, FALSE)
        ELSE toggleSelection(fs, sel, data.file, FALSE)
    ELSE IF ~data.ctrl THEN clearSelection(sel) ELSE sel

\* faulty variant: a ctrl-click selects the file exclusively
MouseClickFileSelectionCtrlExclusive(fs, sel, last, data) ==
    IF data.clickType = "double" THEN sel
    ELSE IF isSelectable(data.file) THEN
        IF data.ctrl THEN toggleSelection(fs, sel, data.file, TRUE)
        ELSE IF data.shift THEN
            IF last # Null
            THEN selectRange(fs, sel, RangeStart(last, data.idx),
                             RangeEnd(last, data.idx))
            ELSE toggleSelection(fs, sel, data.file, FALSE)
        ELSE toggleSelection(fs, sel, data.file, TRUE)
    ELSE IF ~data.ctrl THEN clearSelection(sel) ELSE sel

\* faulty variant: a shift-click without a last click selects the file exclusively
MouseClickFileSelectionShiftExclusive(fs, sel, last, data) ==
    IF data.clickType = "double" THEN sel
    ELSE IF isSelectable(data.file) THEN
        IF data.ctrl THEN toggleSelection(fs, sel, data.file, FALSE)
        ELSE IF data.shift THEN
            IF last # Null
            THEN selectRange(fs, sel, RangeStart(last, data.idx),
                             RangeEnd(last, data.idx))
            ELSE toggleSelection(fs, sel, data.file, TRUE)
        ELSE toggleSelection(fs, sel, data.file, TRUE)
    ELSE IF ~data.ctrl THEN clearSelection(sel) ELSE sel

\* faulty variant: a click on a file that is not selectable always clears
MouseClickFileSelectionAlwaysClears(fs, sel, last, data) ==
    IF data.clickType = "double" THEN sel
    ELSE IF isSelectable(data.file) THEN
        IF data.ctrl THEN toggleSelection(fs, sel, data.file, FALSE)
        ELSE IF data.shift THEN
            IF last # Null
            THEN selectRange(fs, sel, RangeStart(last, data.idx),
                             RangeEnd(last, data.idx))
            ELSE toggleSelection(fs, sel, data.file, FALSE)
        ELSE toggleSelection(fs, sel, data.file, TRUE)
    ELSE clearSelection(sel)

\* faulty variant: shift is looked at before ctrl
MouseClickFileSelectionShiftFirst(fs, sel, last, data) ==
    IF data.clickType = "double" THEN sel
    ELSE IF isSelectable(data.file) THEN
        IF data.shift THEN
            IF last # Null
            THEN selectRange(fs, sel, RangeStart(last, data.idx),
                             RangeEnd(last, data.idx))
            ELSE toggleSelection(fs, sel, data.file, FALSE)
        ELSE IF data.ctrl THEN toggleSelection(fs, sel, data.file, FALSE)
        ELSE toggleSelection(fs, sel, data.file, TRUE)
    ELSE IF ~data.ctrl THEN clearSelection(sel) ELSE sel

MouseClickFileSelection(fs, sel, last, data) ==
    IF data.clickType = "double" THEN sel
    ELSE IF isSelectable(data.file) THEN
        IF data.ctrl THEN toggleSelection(fs, sel, data.file, FALSE)
        ELSE IF data.shift THEN
            IF last # Null
            THEN selectRange(fs, sel, RangeStart(last, data.idx),
                             RangeEnd(last, data.idx))
            ELSE toggleSelection(fs, sel, data.file, FALSE)
        ELSE toggleSelection(fs, sel, data.file, TRUE)
    ELSE IF ~data.ctrl THEN clearSelection(sel) ELSE sel

\* faulty variant: a range selection moves the last click to the shift-clicked row
MouseClickFileLastClickMovesAnchor(last, data) ==
    IF data.clickType = "double" THEN last ELSE data.idx

MouseClickFileLastClick(last, data) ==
    IF data.clickType = "double" THEN last
    ELSE IF isSelectable(data.file) THEN
        IF data.ctrl THEN data.idx
        ELSE IF data.shift THEN (IF last # Null THEN last ELSE data.idx)
        ELSE data.idx
    ELSE data.idx

\* faulty variant: a double click opens the file without asking whether it is openable
MouseClickFileDispatchedUnchecked(data) ==
    IF data.clickType = "double"
    THEN <<FileAction(OpenFiles, data.file, <<data.file>>)>>
    ELSE <<>>

\* faulty variant: a double click asks whether the file is selectable, not openable
MouseClickFileDispatchedOnSelectable(data) ==
    IF data.clickType = "double" /\ isSelectable(data.file)
    THEN <<FileAction(OpenFiles, data.file, <<data.file>>)>>
    ELSE <<>>

MouseClickFileDispatched(data) ==
    IF data.clickType = "double" /\ isOpenable(data.file)
    THEN <<FileAction(OpenFiles, data.file, <<data.file>>)>>
    ELSE <<>>

\* history only: a plain click, or a shift-click on a selectable file while
\* there is no last click, starts a run; a shift-click on a selectable file
\* continues it; anything else ends it
RunAfterClick(data) ==
    IF data.clickType = "single" /\ ~data.ctrl /\ ~data.shift
    THEN [start |-> "plain", anchor |-> data.idx, shifts |-> 0, prev |-> Null]
    ELSE IF data.clickType = "single" /\ ~data.ctrl /\ isSelectable(data.file)
    THEN IF run.anchor # Null
         THEN [run EXCEPT
                 !.shifts = IF run.shifts < MaxRun THEN run.shifts + 1 ELSE MaxRun,
                 !.prev = ev.idx]
         ELSE IF lastClick = Null
              THEN [start |-> "shift", anchor |-> data.idx, shifts |-> 0,
                    prev |-> Null]
              ELSE NoRun
    ELSE NoRun

CtrlClick(e) ==
    /\ e.kind = "MouseClickFile" /\ e.clickType = "single"
    /\ e.ctrl /\ isSelectable(e.file)

\* history only: the selection before the first of two ctrl-clicks in a row
TwiceAfterClick(data) ==
    IF CtrlClick(ev) /\ CtrlClick(data) /\ ev.file = data.file
    THEN [on |-> TRUE, before |-> pre.selection]
    ELSE NoTwice

MouseClickFile(i, clickType, ctrlKey, shiftKey) ==
    LET data == [NoEv EXCEPT !.kind = "MouseClickFile", !.file = FileAt(files, i),
                             !.idx = i, !.clickType = clickType,
                             !.ctrl = ctrlKey, !.shift = shiftKey]
    IN  /\ selection' = MouseClickFileSelection(files, selection, lastClick, data)
        /\ lastClick' = MouseClickFileLastClick(lastClick, data)
        /\ dispatched' = MouseClickFileDispatched(data)
        /\ run' = RunAfterClick(data)
        /\ twice' = TwiceAfterClick(data)
        /\ Handled(MouseClickFileDispatched(data), FALSE)
        /\ stale' = (stale /\ data.clickType = "double")
        /\ Record(data)
        /\ UNCHANGED <<files, parentFolder, disableSelection, hostMayThrow,
                       fileActionMap, searchBarVisible>>

\* ------------------------------------------------------- KeyboardClickFile
\* faulty variant: Space never toggles exclusively, whatever the ctrl key
KeyboardClickFileSelectionIgnoresCtrl(fs, sel, data) ==
    IF data.enter THEN sel
    ELSE IF data.space /\ isSelectable(data.file)
         THEN toggleSelection(fs, sel, data.file, FALSE)
         ELSE sel

\* faulty variant: Enter selects the file it opens
KeyboardClickFileSelectionEnterSelects(fs, sel, data) ==
    IF data.enter
    THEN (IF isSelectable(data.file)
          THEN toggleSelection(fs, sel, data.file, TRUE) ELSE sel)
    ELSE IF data.space /\ isSelectable(data.file)
         THEN toggleSelection(fs, sel, data.file, data.ctrl)
         ELSE sel

KeyboardClickFileSelection(fs, sel, data) ==
    IF data.enter THEN sel
    ELSE IF data.space /\ isSelectable(data.file)
         THEN toggleSelection(fs, sel, data.file, data.ctrl)
         ELSE sel

\* faulty variant: Enter opens the file whatever the selection size
KeyboardClickFileDispatchedAnySize(sel, data) ==
    IF data.enter
    THEN <<FileAction(OpenFiles, data.file, <<data.file>>)>>
    ELSE <<>>

KeyboardClickFileDispatched(sel, data) ==
    IF data.enter /\ Cardinality(sel) = 0
    THEN <<FileAction(OpenFiles, data.file, <<data.file>>)>>
    ELSE <<>>

\* faulty variant: only Enter and Space move the last click
KeyboardClickFileLastClickOnKey(last, data) ==
    IF data.enter \/ data.space THEN data.idx ELSE last

\* the assignment is the first statement, before any dispatch
KeyboardClickFileLastClick(last, data) == data.idx

KeyboardClickFile(i, enterKey, spaceKey, ctrlKey) ==
    LET data == [NoEv EXCEPT !.kind = "KeyboardClickFile", !.file = FileAt(files, i),
                             !.idx = i, !.enter = enterKey, !.space = spaceKey,
                             !.ctrl = ctrlKey]
    IN  /\ lastClick' = KeyboardClickFileLastClick(lastClick, data)
        /\ selection' = KeyboardClickFileSelection(files, selection, data)
        /\ dispatched' = KeyboardClickFileDispatched(selection, data)
        /\ run' = [start |-> "keyboard", anchor |-> data.idx, shifts |-> 0,
                   prev |-> Null]
        /\ twice' = NoTwice
        /\ Handled(KeyboardClickFileDispatched(selection, data), FALSE)
        /\ stale' = FALSE
        /\ Record(data)
        /\ UNCHANGED <<files, parentFolder, disableSelection, hostMayThrow,
                       fileActionMap, searchBarVisible>>

\* -------------------------------------- OpenParentFolder, OpenFolderChainFolder
\* faulty variant: the parent folder is opened without the openable check
OpenParentFolderDispatchedUnchecked(parent) ==
    <<FileAction(OpenFiles, parent, <<parent>>)>>

OpenParentFolderDispatched(parent) ==
    IF isOpenable(parent)
    THEN <<FileAction(OpenFiles, parent, <<parent>>)>>
    ELSE <<>>

OpenParentFolder ==
    /\ dispatched' = OpenParentFolderDispatched(parentFolder)
    /\ run' = NoRun
    /\ twice' = NoTwice
    /\ Handled(OpenParentFolderDispatched(parentFolder), ~isOpenable(parentFolder))
    /\ Record([NoEv EXCEPT !.kind = "OpenParentFolder"])
    /\ UNCHANGED <<files, parentFolder, disableSelection, selection, lastClick,
                   hostMayThrow, fileActionMap,
                   searchBarVisible, stale>>

OpenFolderChainFolder(f) ==
    /\ dispatched' = <<FileAction(OpenFiles, f, <<f>>)>>
    /\ run' = NoRun
    /\ twice' = NoTwice
    /\ Handled(<<FileAction(OpenFiles, f, <<f>>)>>, FALSE)
    /\ Record([NoEv EXCEPT !.kind = "OpenFolderChainFolder", !.file = f])
    /\ UNCHANGED <<files, parentFolder, disableSelection, selection, lastClick,
                   hostMayThrow, fileActionMap,
                   searchBarVisible, stale>>

\* ------------------------------------------------ DragNDropStart, DragNDropEnd
\* reduxActions.selectFiles(...) only builds an action object: it is never
\* passed to dispatch, so the store sees clearSelection and nothing else.
DragNDropStartSelection(sel, dragSource) ==
    IF ~getIsFileSelected(sel, dragSource) THEN clearSelection(sel) ELSE sel

DragNDropStart(dragSource) ==
    /\ selection' = DragNDropStartSelection(selection, dragSource)
    /\ dispatched' = <<>>
    /\ run' = NoRun
    /\ twice' = NoTwice
    /\ Handled(<<>>, FALSE)
    /\ Record([NoEv EXCEPT !.kind = "DragNDropStart", !.source = dragSource])
    /\ UNCHANGED <<files, parentFolder, disableSelection, lastClick,
                   hostMayThrow, fileActionMap,
                   searchBarVisible, stale>>

\* faulty variant: the selected files are dropped without the draggable filter
DroppedFilesUnfiltered(fs, sel, dragSource) ==
    LET selectedFiles == SelectSeq(fs, LAMBDA f : f \in sel)
    IN  IF Len(selectedFiles) > 0 THEN selectedFiles ELSE <<dragSource>>

DroppedFiles(fs, sel, dragSource) ==
    LET selectedFiles == getSelectedDraggable(fs, sel)
    IN  IF Len(selectedFiles) > 0 THEN selectedFiles ELSE <<dragSource>>

DropActionId(dropEffect) ==
    IF dropEffect = "copy" THEN DuplicateFilesTo ELSE MoveFilesTo

\* faulty variant: the drop is rejected when the drag source, not the target, is selected
DragNDropEndDispatchedChecksSource(fs, sel, data) ==
    IF getIsFileSelected(sel, data.source) THEN <<>>
    ELSE <<FileAction(DropActionId(data.effect), data.target,
                      DroppedFiles(fs, sel, data.source))>>

DragNDropEndDispatched(fs, sel, data) ==
    IF getIsFileSelected(sel, data.target) THEN <<>>
    ELSE <<FileAction(DropActionId(data.effect), data.target,
                      DroppedFiles(fs, sel, data.source))>>

DropEffects == {"copy", "move", "link"}

DragNDropEnd(dragSource, dropTarget, dropEffect) ==
    LET data == [NoEv EXCEPT !.kind = "DragNDropEnd", !.source = dragSource,
                             !.target = dropTarget, !.effect = dropEffect]
    IN  /\ dispatched' = DragNDropEndDispatched(files, selection, data)
        /\ run' = NoRun
        /\ twice' = NoTwice
        /\ Handled(DragNDropEndDispatched(files, selection, data), FALSE)
        /\ Record(data)
        /\ UNCHANGED <<files, parentFolder, disableSelection, selection, lastClick,
                       hostMayThrow, fileActionMap,
                       searchBarVisible, stale>>

\* ------------------------------------------------------------ host changes
\* a new files array: the effect on [rawFiles] zeroes out the last click
\* faulty variant: the effect on [rawFiles] is missing, the last click survives
SetFilesKeepsLastClick(newFiles, parent) ==
    /\ files' = newFiles
    /\ parentFolder' = parent
    /\ lastClick' = lastClick
    /\ selection' = setRawFilesSelection(selection, newFiles)
    /\ dispatched' = <<>>
    /\ run' = NoRun
    /\ twice' = NoTwice
    /\ outcome' = NoOutcome
    /\ stale' = (stale \/ lastClick # Null)
    /\ Record([NoEv EXCEPT !.kind = "SetFiles"])
    /\ UNCHANGED <<disableSelection, hostMayThrow, fileActionMap,
                   searchBarVisible>>

SetFiles(newFiles, parent) ==
    /\ files' = newFiles
    /\ parentFolder' = parent
    /\ lastClick' = Null
    /\ selection' = setRawFilesSelection(selection, newFiles)
    /\ dispatched' = <<>>
    /\ run' = NoRun
    /\ twice' = NoTwice
    /\ outcome' = NoOutcome
    /\ stale' = (stale \/ lastClick # Null)
    /\ Record([NoEv EXCEPT !.kind = "SetFiles"])
    /\ UNCHANGED <<disableSelection, hostMayThrow, fileActionMap,
                   searchBarVisible>>

\* FileBrowserHandle.setFileSelection(selection, reset = true)
setFileSelection(ids, reset) ==
    /\ selection' = selectFiles(files, selection, ids, reset)
    /\ dispatched' = <<>>
    /\ run' = NoRun
    /\ twice' = NoTwice
    /\ outcome' = NoOutcome
    /\ Record([NoEv EXCEPT !.kind = "setFileSelection", !.ids = ids,
                           !.reset = reset])
    /\ UNCHANGED <<files, parentFolder, disableSelection, lastClick,
                   hostMayThrow, fileActionMap,
                   searchBarVisible, stale>>

\* useFileActions: a new fileActions array replaces the whole registry
setFileActionMap(newMap) ==
    /\ fileActionMap' = newMap
    /\ dispatched' = <<>>
    /\ run' = NoRun
    /\ twice' = NoTwice
    /\ outcome' = NoOutcome
    /\ Record([NoEv EXCEPT !.kind = "setFileActionMap"])
    /\ UNCHANGED <<files, parentFolder, disableSelection, selection, lastClick,
                   hostMayThrow, searchBarVisible, stale>>

Next ==
    \/ \E i \in Indices(files), ct \in {"single", "double"}, c, s \in BOOLEAN :
           MouseClickFile(i, ct, c, s)
    \/ \E i \in Indices(files), e, sp, c \in BOOLEAN : KeyboardClickFile(i, e, sp, c)
    \/ OpenParentFolder
    \/ \E f \in Universe : OpenFolderChainFolder(f)
    \/ \E f \in Universe : DragNDropStart(f)
    \/ \E f, t \in Universe, eff \in DropEffects : DragNDropEnd(f, t, eff)
    \/ \E d \in Folders : SetFiles(d.files, d.parent)
    \/ \E ids \in SUBSET Universe, reset \in BOOLEAN : setFileSelection(ids, reset)

Spec == Init /\ [][Next]_vars

\* the same browser mounted by a host whose file action dispatcher can throw
\* and the events that dispatch file actions, with the plain clicks and Space
\* presses that build the selection they depend on
InitThrow == Mounted(FALSE, TRUE)

NextThrow ==
    \/ \E i \in Indices(files), ct \in {"single", "double"} :
           MouseClickFile(i, ct, FALSE, FALSE)
    \/ \E i \in Indices(files), e, sp \in BOOLEAN : KeyboardClickFile(i, e, sp, FALSE)
    \/ OpenParentFolder
    \/ \E f \in Universe : OpenFolderChainFolder(f)
    \/ \E f \in Universe : DragNDropStart(f)
    \/ \E f, t \in Universe, eff \in DropEffects : DragNDropEnd(f, t, eff)
    \/ \E d \in Folders : SetFiles(d.files, d.parent)

SpecThrow == InitThrow /\ [][NextThrow]_vars

\* the same browser mounted with the disableSelection prop set
InitDisabled == Mounted(TRUE, FALSE)
SpecDisabled == InitDisabled /\ [][Next]_vars

\* the browser of a host that registers its own file actions, with the
\* toolbar reading the modifiers of each action: the events that change what
\* the toolbar reads, and the request its button issues
InitToolbar ==
    /\ Browser(FALSE, FALSE)
    /\ fileActionMap \in FileActionMaps
    /\ searchBarVisible \in BOOLEAN

NextToolbar ==
    \/ \E i \in Indices(files), c \in BOOLEAN : MouseClickFile(i, "single", c, FALSE)
    \/ OpenParentFolder
    \/ \E d \in Folders : SetFiles(d.files, d.parent)
    \/ \E m \in FileActionMaps : setFileActionMap(m)

SpecToolbar == InitToolbar /\ [][NextToolbar]_vars

TypeOK ==
    /\ files \in FileLists
    /\ parentFolder \in ParentFolders
    /\ selection \subseteq Universe
    /\ lastClick \in {Null} \cup 0..(NumFiles - 1)
    /\ Len(dispatched) <= 1
    /\ fileActionMap \in FileActionMaps
    /\ searchBarVisible \in BOOLEAN

\* ================================================================= claims
\* the files whose display index lies between a and b, in either order
RangeIds(fs, a, b) ==
    {FileAt(fs, i) : i \in {j \in Indices(fs) :
        /\ (a <= j \/ b <= j)
        /\ (j <= a \/ j <= b)}}

Flip(sel, f) == (sel \ {f}) \cup ({f} \ sel)

SingleClick == ev.kind = "MouseClickFile" /\ ev.clickType = "single"
DoubleClick == ev.kind = "MouseClickFile" /\ ev.clickType = "double"
ShiftClick == SingleClick /\ ev.shift /\ ~ev.ctrl /\ isSelectable(ev.file)
RangeClick == ShiftClick /\ pre.lastClick # Null
ShiftClickNoAnchor == ShiftClick /\ pre.lastClick = Null
PlainClick == SingleClick /\ ~ev.shift /\ ~ev.ctrl /\ isSelectable(ev.file)

\* C1: after a single shift-click (ctrl not held) on a selectable file at index b
\* with a prior last-click-index a, the selection is exactly the files whose
\* display index lies in [min(a,b), max(a,b)]: the prior selection is replaced,
\* and swapping a and b gives the same set.
C1_ShiftClickSelectsRange ==
    RangeClick =>
        /\ selection = RangeIds(files, pre.lastClick, ev.idx)
        /\ selection = RangeIds(files, ev.idx, pre.lastClick)

\* C1 witness: a range click below its anchor, over two or more files, with a
\* prior selection that had a file outside the range
C1_Witness ==
    /\ RangeClick
    /\ ev.idx < pre.lastClick
    /\ Cardinality(selection) >= 2
    /\ pre.selection \ RangeIds(files, pre.lastClick, ev.idx) # {}

\* C2: after a plain click at index a followed by consecutive shift-clicks on
\* selectable files (no file-list change in between), the last-click-index is
\* still a and the selection is the range between a and the last shift-click.
C2_AnchorKeptByShiftClicks ==
    (run.start = "plain") =>
        /\ lastClick = run.anchor
        /\ (run.shifts > 0 => selection = RangeIds(files, run.anchor, ev.idx))

\* C2 witness: a second shift-click in a row whose range from the anchor
\* differs from the range from the previous shift-click
C2_Witness ==
    /\ run.start = "plain" /\ run.shifts >= 2
    /\ run.prev # run.anchor
    /\ selection # RangeIds(files, run.prev, ev.idx)

\* C3: a single click with no modifier on a selectable file at index i makes
\* the selection exactly {that file}, whatever it was before, and sets the
\* last-click-index to i.
C3_PlainClickSelectsExclusively ==
    PlainClick => selection = {ev.file} /\ lastClick = ev.idx

\* C3 witness: a plain click on a file that was selected along with another
C3_Witness ==
    /\ PlainClick
    /\ ev.file \in pre.selection
    /\ Cardinality(pre.selection) >= 2
    /\ pre.lastClick # ev.idx

\* C4: a single ctrl-click on a selectable file at index i flips that file's
\* membership only and sets the last-click-index to i; two ctrl-clicks on the
\* same file in a row restore the selection held before the first.
C4_CtrlClickFlipsOneFile ==
    /\ CtrlClick(ev) =>
          /\ selection = Flip(pre.selection, ev.file)
          /\ lastClick = ev.idx
    /\ twice.on => selection = twice.before

\* C4 witness: the second of two ctrl-clicks on a file that was selected before
\* the first, along with another file
C4_Witness ==
    /\ CtrlClick(ev) /\ twice.on
    /\ ev.file \in twice.before
    /\ twice.before \ {ev.file} # {}

\* C5: with no last-click-index, a shift-click on a selectable file at index i
\* acts on the selection and the last-click-index as a ctrl-click on that file
\* does (that file flipped, the others unchanged, anchor set to i), and the
\* next shift-click selects the range anchored at i.
C5_ShiftClickWithoutAnchor ==
    /\ ShiftClickNoAnchor =>
          LET asCtrl == [ev EXCEPT !.ctrl = TRUE, !.shift = FALSE]
          IN  /\ selection = MouseClickFileSelection(files, pre.selection,
                                                     pre.lastClick, asCtrl)
              /\ lastClick = MouseClickFileLastClick(pre.lastClick, asCtrl)
              /\ selection = Flip(pre.selection, ev.file)
              /\ lastClick = ev.idx
    /\ (run.start = "shift" /\ run.shifts > 0) =>
          /\ lastClick = run.anchor
          /\ selection = RangeIds(files, run.anchor, ev.idx)

\* C5 witness: a shift-click without anchor on a file that was selected along
\* with another one
C5_Witness ==
    /\ ShiftClickNoAnchor
    /\ ev.file \in pre.selection
    /\ pre.selection \ {ev.file} # {}

\* C6: on drag start, a drag source outside the selection leaves the selection
\* {drag source} when the source is selectable and empty when it is not; a
\* selected drag source leaves the whole selection unchanged.
C6_DragStartSelection ==
    (ev.kind = "DragNDropStart") =>
        IF ev.source \in pre.selection
        THEN selection = pre.selection
        ELSE selection = IF isSelectable(ev.source) THEN {ev.source} ELSE {}

\* C7: on drag end with a selected drop target nothing is dispatched and the
\* selection and the last-click-index are unchanged.
C7_DropOnSelectionRejected ==
    (ev.kind = "DragNDropEnd" /\ ev.target \in pre.selection) =>
        /\ dispatched = <<>>
        /\ selection = pre.selection
        /\ lastClick = pre.lastClick

\* C7 witness: a drop on a selected target from a source that is not selected
C7_Witness ==
    /\ ev.kind = "DragNDropEnd"
    /\ ev.target \in pre.selection
    /\ ev.source \notin pre.selection
    /\ pre.lastClick # Null

\* C8: on drag end with a drop target that is not selected exactly one action
\* is dispatched, with target = drop target, id Duplicate for drop effect
\* "copy" and Move for any other, and files the selected draggable files when
\* there is one and the drag source alone otherwise.
C8_DropDispatchesMoveOrDuplicate ==
    (ev.kind = "DragNDropEnd" /\ ev.target \notin pre.selection) =>
        /\ Len(dispatched) = 1
        /\ dispatched[1].target = ev.target
        /\ dispatched[1].actionId =
              (IF ev.effect = "copy" THEN DuplicateFilesTo ELSE MoveFilesTo)
        /\ LET drag == {f \in pre.selection : isDraggable(f)}
               fls == dispatched[1].files
           IN  IF drag # {}
               THEN Ids(fls) = drag /\ Len(fls) = Cardinality(drag)
               ELSE fls = <<ev.source>>

\* C8 witness: a drop with an effect other than copy and move while the
\* selection holds a draggable file and one that is not draggable
C8_Witness ==
    /\ ev.kind = "DragNDropEnd" /\ ev.target \notin pre.selection
    /\ ev.effect = "link"
    /\ \E f, g \in pre.selection : isDraggable(f) /\ ~isDraggable(g)
    /\ Len(dispatched) = 1

\* C9: a double click on an openable file dispatches exactly one Open action
\* with target = the file and files = [the file], whatever the selection, and
\* changes neither selection nor last-click-index; on a file that is not
\* openable it dispatches nothing and changes nothing.
C9_DoubleClickOpens ==
    DoubleClick =>
        /\ selection = pre.selection
        /\ lastClick = pre.lastClick
        /\ dispatched = IF isOpenable(ev.file)
                        THEN <<FileAction(OpenFiles, ev.file, <<ev.file>>)>>
                        ELSE <<>>

\* C9 witness: a double click on an openable file outside a selection of two
C9_Witness ==
    /\ DoubleClick /\ isOpenable(ev.file)
    /\ Cardinality(pre.selection) >= 2
    /\ ev.file \notin pre.selection
    /\ pre.lastClick # ev.idx
    /\ Len(dispatched) = 1

\* C10: a keyboard click with Enter dispatches an Open action for the focused
\* file (target = file, files = [file]) exactly when the selection is empty,
\* dispatches nothing otherwise, and leaves the selection unchanged.
C10_EnterOpensOnEmptySelection ==
    (ev.kind = "KeyboardClickFile" /\ ev.enter) =>
        /\ selection = pre.selection
        /\ dispatched = IF Cardinality(pre.selection) = 0
                        THEN <<FileAction(OpenFiles, ev.file, <<ev.file>>)>>
                        ELSE <<>>

\* C10 witness: Enter on a row while two files are selected
C10_Witness ==
    /\ ev.kind = "KeyboardClickFile" /\ ev.enter
    /\ Cardinality(pre.selection) = 2
    /\ dispatched = <<>>


KeyboardClick == ev.kind = "KeyboardClickFile"

\* C11 as stated: a keyboard click with Space pressed on a selectable file
\* toggles that file with exclusive = ctrl held (ctrl: the selection becomes
\* {file}; no ctrl: only that file flips); on a file that is not selectable the
\* selection is unchanged.
C11_SpaceToggles ==
    (KeyboardClick /\ ev.space) =>
        IF isSelectable(ev.file)
        THEN selection = IF ev.ctrl THEN {ev.file} ELSE Flip(pre.selection, ev.file)
        ELSE selection = pre.selection

\* C11 amended: the same for a keyboard click with Space pressed and Enter not
\* pressed; when Enter is pressed too the Enter branch is taken and the
\* selection is unchanged.
C11_SpaceWithoutEnterToggles ==
    /\ (KeyboardClick /\ ev.space /\ ~ev.enter) =>
          IF isSelectable(ev.file)
          THEN selection = IF ev.ctrl THEN {ev.file}
                           ELSE Flip(pre.selection, ev.file)
          ELSE selection = pre.selection
    /\ (KeyboardClick /\ ev.space /\ ev.enter) => selection = pre.selection

\* C11 witness: Space with ctrl on a selectable file while two other or more
\* files are selected
C11_Witness ==
    /\ KeyboardClick /\ ev.space /\ ~ev.enter /\ ev.ctrl
    /\ isSelectable(ev.file)
    /\ Cardinality(pre.selection) >= 2
    /\ selection = {ev.file}


\* what the event after a thrown error must still do: a double click on an
\* openable file and a folder chain click hand their Open action to the host,
\* a drop on a file outside the selection hands over its action, and a plain
\* click on a selectable file selects it
LaterEventHandled ==
    /\ (ev'.kind = "MouseClickFile" /\ ev'.clickType = "double"
            /\ isOpenable(ev'.file)) =>
          dispatched' = <<FileAction(OpenFiles, ev'.file, <<ev'.file>>)>>
    /\ (ev'.kind = "OpenFolderChainFolder") =>
          dispatched' = <<FileAction(OpenFiles, ev'.file, <<ev'.file>>)>>
    /\ (ev'.kind = "DragNDropEnd" /\ ev'.target \notin selection) =>
          Len(dispatched') = 1 /\ dispatched'[1].target = ev'.target
    /\ (ev'.kind = "MouseClickFile" /\ ev'.clickType = "single" /\ ~ev'.ctrl
            /\ ~ev'.shift /\ isSelectable(ev'.file)) =>
          selection' = {ev'.file} /\ lastClick' = ev'.idx

\* C12: an error thrown by the host's action handler (or inside the internal
\* handler) never leaves dispatchSpecialAction: the event completes, the
\* selection and the last-click-index keep the values they had when the file
\* action was dispatched, and the next event is interpreted and its action
\* handed to the host as usual.
C12_HandlerErrorContained ==
    /\ [](/\ ~outcome.escaped
          /\ outcome.threw =>
                /\ outcome.log = "error"
                /\ Len(dispatched) = 1
                /\ selection = pre.selection
                /\ lastClick = IF KeyboardClick THEN ev.idx ELSE pre.lastClick)
    /\ [][outcome.threw => LaterEventHandled]_vars

\* C12 witness: the dispatcher threw on Enter, after the handler had moved the
\* last click
C12_Witness ==
    /\ outcome.threw
    /\ KeyboardClick /\ ev.enter
    /\ pre.lastClick # ev.idx /\ lastClick = ev.idx


\* C13: in every reachable state every selected id is the id of a file of the
\* current file sequence: a file-list change drops the ids of the files it
\* removes and no event selects an id that is not in the list.
C13_SelectionWithinFiles ==
    /\ selection \subseteq Ids(files)
    /\ (ev.kind = "SetFiles") => selection = pre.selection \cap Ids(files)

\* C13 witness: a file-list change that removed one selected file and kept
\* another
C13_Witness ==
    /\ ev.kind = "SetFiles"
    /\ pre.selection \ Ids(files) # {}
    /\ selection # {}


\* C14: a change of the file sequence resets the last-click-index to none, so
\* the first shift-click on a selectable file after it never selects a range
\* from an anchor set before the change: it toggles the clicked file alone and
\* sets a new anchor.
C14_FilesUpdateResetsLastClick ==
    /\ (ev.kind = "SetFiles") => lastClick = Null
    /\ stale => lastClick = Null
    /\ (ShiftClick /\ pre.stale) =>
          /\ selection = Flip(pre.selection, ev.file)
          /\ lastClick = ev.idx

\* C14 witness: a shift-click while the anchor set before a file-list change
\* is gone, on a list that would have given a range of two or more files
C14_Witness ==
    /\ ShiftClick /\ pre.stale
    /\ pre.selection # {}
    /\ Cardinality(selection) <= 1
    /\ Len(files) >= 2


\* C15: with the selection-disabled flag set every selection-mutating event
\* (single click with any modifiers, Space, drag start, setFileSelection)
\* leaves the selection as it was, so it is empty in every reachable state,
\* while double click, Enter, open-parent-folder and folder-chain requests
\* still dispatch their Open actions.
C15_DisabledSelectionStaysEmpty ==
    disableSelection =>
        /\ selection = {} /\ pre.selection = {}
        /\ (DoubleClick /\ isOpenable(ev.file)) =>
              dispatched = <<FileAction(OpenFiles, ev.file, <<ev.file>>)>>
        /\ (KeyboardClick /\ ev.enter) =>
              dispatched = <<FileAction(OpenFiles, ev.file, <<ev.file>>)>>
        /\ (ev.kind = "OpenParentFolder" /\ isOpenable(parentFolder)) =>
              dispatched = <<FileAction(OpenFiles, parentFolder, <<parentFolder>>)>>
        /\ (ev.kind = "OpenFolderChainFolder") =>
              dispatched = <<FileAction(OpenFiles, ev.file, <<ev.file>>)>>

\* C15 witness: setFileSelection with the id of a selectable file of the list
\* while selection is disabled
C15_Witness ==
    /\ disableSelection
    /\ ev.kind = "setFileSelection"
    /\ \E id \in ev.ids : id \in Ids(files) /\ isSelectable(id)
    /\ selection = {}


Applicable(ids) == {id \in ids : id \in Ids(files) /\ isSelectable(id)}

C17_ClickOnUnselectableFile ==
    (SingleClick /\ ~isSelectable(ev.file)) =>
        /\ selection = IF ev.ctrl THEN pre.selection ELSE {}
        /\ lastClick = ev.idx

\* C17 witness: a ctrl-shift-click on a file that is not selectable while
\* files are selected and the last click is elsewhere
C17_Witness ==
    /\ SingleClick /\ ~isSelectable(ev.file)
    /\ ev.ctrl /\ ev.shift
    /\ selection # {}
    /\ pre.lastClick # Null /\ pre.lastClick # ev.idx


\* C18: every keyboard click, whatever the keys, the file and the dispatch,
\* sets the last-click-index to the row's display index k, so that a following
\* shift-click on a selectable file at index j (no file-list change in
\* between) selects the range between k and j.
C18_KeyboardClickSetsAnchor ==
    /\ KeyboardClick => lastClick = ev.idx
    /\ (run.start = "keyboard" /\ run.shifts > 0) =>
          /\ lastClick = run.anchor
          /\ selection = RangeIds(files, run.anchor, ev.idx)

\* C18 witness: a shift-click that follows a keyboard click on a row whose
\* file is not selectable, two or more rows away or next to it
C18_Witness ==
    /\ run.start = "keyboard" /\ run.shifts = 1
    /\ ~isSelectable(FileAt(files, run.anchor))
    /\ run.anchor # ev.idx
    /\ Cardinality(selection) >= 2


\* C19: an open-parent-folder request dispatches one Open action with target
\* = parent folder and files = [parent folder] when the parent folder is
\* openable; when it is absent or not openable nothing is dispatched, a
\* warning is logged, the selection and the last-click-index are unchanged
\* and the next event is handled as usual.
C19_OpenParentFolder ==
    /\ []((ev.kind = "OpenParentFolder") =>
            /\ selection = pre.selection
            /\ lastClick = pre.lastClick
            /\ IF isOpenable(parentFolder)
               THEN /\ dispatched =
                          <<FileAction(OpenFiles, parentFolder, <<parentFolder>>)>>
                    /\ outcome.log # "warn"
               ELSE /\ dispatched = <<>>
                    /\ outcome.log = "warn"
                    /\ ~outcome.threw /\ ~outcome.escaped)
    /\ [][(ev.kind = "OpenParentFolder" /\ outcome.log = "warn")
            => LaterEventHandled]_vars

\* C19 witness: the request with a parent folder that is present but not
\* openable, while files are selected and a last click is set
C19_Witness ==
    /\ ev.kind = "OpenParentFolder"
    /\ parentFolder # NoFile /\ ~isOpenable(parentFolder)
    /\ outcome.log = "warn"
    /\ selection # {} /\ lastClick # Null


CtrlShiftClick == SingleClick /\ ev.ctrl /\ ev.shift /\ isSelectable(ev.file)

\* C20: every single click, whatever the ctrl and shift keys and whether or
\* not the file is selectable, takes exactly one branch and does not throw;
\* with ctrl and shift both held on a selectable file the click is a
\* ctrl-click (the file's membership is flipped and the last-click-index
\* becomes its index), never a range selection, with or without a prior
\* last-click-index.
C20_SingleClickBranchesTotal ==
    /\ SingleClick =>
        /\ dispatched = <<>>
        /\ ~outcome.threw /\ ~outcome.escaped
        /\ IF ~isSelectable(ev.file)
           THEN /\ selection = (IF ev.ctrl THEN pre.selection ELSE {})
                /\ lastClick = ev.idx
           ELSE IF ev.ctrl
           THEN /\ selection = Flip(pre.selection, ev.file)
                /\ lastClick = ev.idx
           ELSE IF ev.shift /\ pre.lastClick # Null
           THEN /\ selection = RangeIds(files, pre.lastClick, ev.idx)
                /\ lastClick = pre.lastClick
           ELSE IF ev.shift
           THEN /\ selection = Flip(pre.selection, ev.file)
                /\ lastClick = ev.idx
           ELSE /\ selection = {ev.file}
                /\ lastClick = ev.idx
    /\ CtrlShiftClick =>
        /\ selection = Flip(pre.selection, ev.file)
        /\ lastClick = ev.idx

\* C20 witness: a ctrl+shift click on a selectable file with a prior
\* last-click-index on another row, where a range selection would have given
\* a different selection and left the last-click-index alone
C20_Witness ==
    /\ CtrlShiftClick
    /\ pre.lastClick # Null /\ pre.lastClick # ev.idx
    /\ selection # RangeIds(files, pre.lastClick, ev.idx)
    /\ lastClick = ev.idx


Dispatching == dispatched # <<>>

\* C21: no event both changes the selection and dispatches a file action:
\* after every event that dispatches an Open, Move or Duplicate action the
\* selection is the one before the event, and an event dispatches at most one
\* file action.
C21_DispatchLeavesSelection ==
    /\ Len(dispatched) <= 1
    /\ Dispatching =>
        /\ selection = pre.selection
        /\ dispatched[1].actionId \in {OpenFiles, MoveFilesTo, DuplicateFilesTo}
        /\ ev.kind \in {"MouseClickFile", "KeyboardClickFile", "OpenParentFolder",
                        "OpenFolderChainFolder", "DragNDropEnd"}
        /\ (ev.kind = "MouseClickFile") => ev.clickType = "double"
        /\ (ev.kind = "KeyboardClickFile") => ev.enter

\* C21 witness: a drag end that dispatches a Move of two selected files,
\* which stay selected
C21_Witness ==
    /\ ev.kind = "DragNDropEnd"
    /\ Dispatching
    /\ dispatched[1].actionId = MoveFilesTo
    /\ Cardinality(selection) >= 2


OpenDispatched == Dispatching /\ dispatched[1].actionId = OpenFiles

\* C22 as stated: every Open action dispatched by the handlers, from a double
\* click, an Enter keyboard click, an open-parent-folder request or a
\* folder-chain click, has an openable target.
C22_OpenTargetOpenable ==
    OpenDispatched => isOpenable(dispatched[1].target)

\* C22 amended: an Open action dispatched from a double click or from an
\* open-parent-folder request has an openable target; an Open action from an
\* Enter keyboard click or a folder-chain click targets the file of the event,
\* openable or not.
C22_OpenTargetCheckedOnClickAndParent ==
    OpenDispatched =>
        /\ dispatched[1].files = <<dispatched[1].target>>
        /\ CASE ev.kind = "MouseClickFile" ->
                    /\ dispatched[1].target = ev.file
                    /\ isOpenable(ev.file)
             [] ev.kind = "OpenParentFolder" ->
                    /\ dispatched[1].target = parentFolder
                    /\ isOpenable(parentFolder)
             [] ev.kind = "KeyboardClickFile" ->
                    /\ dispatched[1].target = ev.file
                    /\ ev.enter /\ pre.selection = {}
             [] ev.kind = "OpenFolderChainFolder" ->
                    dispatched[1].target = ev.file
             [] OTHER -> FALSE

\* C22 witness: Enter on a file that is not openable, with nothing selected,
\* dispatches Open for that file
C22_Witness ==
    /\ KeyboardClick /\ ev.enter
    /\ OpenDispatched
    /\ dispatched[1].target = ev.file
    /\ ~isOpenable(ev.file)


\* C23: in every Move or Duplicate action dispatched on drag end the drop
\* target is not among the action's files, whatever the selection, the drag
\* source and the drop target, a drag source equal to the drop target with an
\* empty selection included.
C23_DropTargetNotAmongFiles ==
    (ev.kind = "DragNDropEnd" /\ Dispatching) =>
        dispatched[1].target \notin Ids(dispatched[1].files)


\* what the toolbar reads for an action id in the current state
Modifiers(fileActionId) ==
    useFileActionModifiers(fileActionMap, searchBarVisible, parentFolder,
                           selection, fileActionId)

\* C24: whenever the modifiers report open_parent_folder as not disabled, an
\* open-parent-folder request issued in that state dispatches an Open action
\* for the parent folder and does not take the warning path; an action id
\* that is not registered is always reported as not active and disabled.
C24_ToolbarAgreesWithHandler ==
    /\ [](\A id \in FileActionIds \cup {"unknown"} :
            (\A a \in fileActionMap : a.id # id) =>
                Modifiers(id) = [active |-> FALSE, disabled |-> TRUE])
    /\ [][(ev'.kind = "OpenParentFolder" /\ ~Modifiers(OpenParentFolderId).disabled)
            => /\ dispatched' =
                     <<FileAction(OpenFiles, parentFolder, <<parentFolder>>)>>
               /\ outcome'.log # "warn"]_vars

\* C24 witness: a host definition of open_parent_folder that requires a
\* selection, a file selected, the action reported as not disabled, and the
\* request has opened the parent folder
C24_Witness ==
    /\ ev.kind = "OpenParentFolder"
    /\ FileActionDef(OpenParentFolderId, TRUE) \in fileActionMap
    /\ selection # {}
    /\ ~Modifiers(OpenParentFolderId).disabled
    /\ OpenDispatched /\ dispatched[1].target = parentFolder

====
